---- MODULE Spec2Model ----
(***************************************************************************)
(* The two example scripts of the repository:                              *)
(*   hello.py           extract_text_with_bounding_boxes and the module-   *)
(*                      level statement that calls it and prints its value *)
(*   examples/basic.py  main() and the cProfile harness of the __main__    *)
(*                      block                                              *)
(* One behaviour runs one of the two scripts.  For basic.py the same       *)
(* main() is also called directly, without a profiler, over the same       *)
(* files, so that the two ways of running it can be compared.              *)
(***************************************************************************)
EXTENDS Integers, Sequences, FiniteSets, TLC

\* ------------------------------------------------------------ bounds
MaxPages == 2      \* documents have 0 .. MaxPages pages
MaxPagesArg == 3   \* the pages argument is None or 0 .. MaxPagesArg

\* ------------------------------------------------------------ values
None == "None"
NoPages == -1      \* the default of the pages parameter, pages=None
PdfPath == "./tests/3M_2015_10K.pdf"
TmplPath == "./tests/10k.tmpl"
Paths == {PdfPath, TmplPath}
Results == {"{}", "{\"a\": 1}"}
LibFailure == [ok |-> FALSE]

\* A span as page.get_text("dict") returns it; the text and the box are
\* distinct for distinct positions <<page, block, line, span>>.
Span(p, b, l, s) ==
  [text |-> 1000 * p + 100 * b + 10 * l + s, bbox |-> <<p, b, l, s>>]

\* A text block (type 0): a "lines" list, each line a "spans" list; ns[l]
\* is the number of spans of line l.
TextBlock(p, b, ns) ==
  [type |-> 0,
   lines |-> [l \in 1..Len(ns) |->
               [spans |-> [s \in 1..ns[l] |-> Span(p, b, l, s)]]]]

\* An image block (type 1): get_text("dict") keeps images, and an image
\* block has no "lines" key.
ImageBlock(p, b) == [type |-> 1, image |-> <<p, b>>]

PageKinds == 1..6

\* The dictionaries get_text("dict") can return for page p.
TextDict(p, k) ==
  CASE k = 1 -> [blocks |-> <<>>]
    [] k = 2 -> [blocks |-> <<TextBlock(p, 1, <<2, 1>>)>>]
    [] k = 3 -> [blocks |-> <<TextBlock(p, 1, <<0, 1>>), TextBlock(p, 2, <<1>>)>>]
    [] k = 4 -> [blocks |-> <<TextBlock(p, 1, <<>>), TextBlock(p, 2, <<2>>)>>]
    [] k = 5 -> [blocks |-> <<ImageBlock(p, 1), TextBlock(p, 2, <<1>>)>>]
    [] k = 6 -> [blocks |-> <<TextBlock(p, 1, <<1>>), ImageBlock(p, 2)>>]

\* The documents fitz.open can return: a list of pages.
Documents ==
  UNION {{[p \in 1..n |-> TextDict(p, ks[p])] : ks \in [1..n -> PageKinds]}
         : n \in 0..MaxPages}

PagesArgs == {NoPages} \cup (0..MaxPagesArg)

VARIABLES
  program,    \* which script runs: "hello" or "basic"
  files,      \* the paths that exist
  lib_out,    \* what process_pdf_file yields for files that exist
  \* hello.py
  doc_content, \* the pages of the PDF at PdfPath
  pages,      \* the pages argument
  pc,         \* position in hello.py
  opened,     \* the document handle is open
  my_range,   \* line 18
  it_page,    \* elements of my_range consumed by the for of line 19
  page_num,
  text_dict,
  it_block,
  block,
  it_line,
  line,
  it_span,
  stdout,     \* lines written to standard output by hello.py
  doc_log,    \* calls made on the document: open, page reads, close
  exc,        \* the exception that ended the script, or None
  \* basic.py, run as a script
  s_pc,
  s_profiler, \* "none", "created", "enabled", "disabled"
  s_main,     \* the frame of main(): [calls, out, ret]
  s_stream,   \* the StringIO s
  s_stats,    \* the pstats.Stats object: "none", "unsorted", "cumulative"
  s_stdout,   \* lines written to standard output by the script
  s_disk,     \* files written
  s_log,      \* the steps taken, in order
  \* basic.py, main() called directly
  p_pc,
  p_main,
  p_stdout

helloVars == <<doc_content, pages, pc, opened, my_range, it_page, page_num,
               text_dict, it_block, block, it_line, line, it_span, stdout,
               doc_log, exc>>
scriptVars == <<s_pc, s_profiler, s_main, s_stream, s_stats, s_stdout,
                s_disk, s_log>>
plainVars == <<p_pc, p_main, p_stdout>>
envVars == <<program, files, lib_out>>
vars == <<envVars, helloVars, scriptVars, plainVars>>

\* ------------------------------------------------------------ Python
\* range(n) as the list of its elements
Range(n) == [i \in 1..n |-> i - 1]

\* len(doc)
DocLen == Len(doc_content)

\* f"Text: {text}, Bounding Box: {bbox}"
SpanLine(span) == <<"Text: ", span.text, ", Bounding Box: ", span.bbox>>

\* str(None), what print writes for the value of a function without return
NoneLine == <<"None">>

NoLocal == <<>>

\* ------------------------------------------------------------ hello.py
InitHello ==
  /\ program = "hello"
  /\ files \in SUBSET {PdfPath}
  /\ lib_out = LibFailure
  /\ doc_content \in Documents
  /\ pages \in PagesArgs
  /\ pc = "open"
  /\ opened = FALSE
  /\ my_range = <<>>
  /\ it_page = 0
  /\ page_num = 0
  /\ text_dict = NoLocal
  /\ it_block = 0
  /\ block = NoLocal
  /\ it_line = 0
  /\ line = NoLocal
  /\ it_span = 0
  /\ stdout = <<>>
  /\ doc_log = <<>>
  /\ exc = None

Raise(e) ==
  /\ pc' = "raised"
  /\ exc' = e

\* Open, were a missing file opened as a new, empty document
OpenCreatesMissing ==
  /\ program = "hello"
  /\ pc = "open"
  /\ opened' = TRUE
  /\ doc_log' = Append(doc_log, <<"open">>)
  /\ pc' = "range"
  /\ UNCHANGED <<doc_content, pages, my_range, it_page, page_num, text_dict,
                 it_block, block, it_line, line, it_span, stdout, exc>>
  /\ UNCHANGED <<envVars, scriptVars, plainVars>>

\* line 17: doc = fitz.open(pdf_path)
Open ==
  /\ program = "hello"
  /\ pc = "open"
  /\ IF PdfPath \in files
       THEN /\ opened' = TRUE
            /\ doc_log' = Append(doc_log, <<"open">>)
            /\ pc' = "range"
            /\ exc' = exc
       ELSE /\ Raise("FileNotFoundError")
            /\ UNCHANGED <<opened, doc_log>>
  /\ UNCHANGED <<doc_content, pages, my_range, it_page, page_num, text_dict,
                 it_block, block, it_line, line, it_span, stdout>>
  /\ UNCHANGED <<envVars, scriptVars, plainVars>>

\* line 18: my_range = range(len(doc)) if pages is None else range(pages)
MyRange(pg) == IF pg = NoPages THEN Range(DocLen) ELSE Range(pg)

ComputeRange ==
  /\ program = "hello"
  /\ pc = "range"
  /\ my_range' = MyRange(pages)
  /\ it_page' = 0
  /\ pc' = "for_page"
  /\ UNCHANGED <<doc_content, pages, opened, page_num, text_dict, it_block,
                 block, it_line, line, it_span, stdout, doc_log, exc>>
  /\ UNCHANGED <<envVars, scriptVars, plainVars>>

\* doc[i]: fitz raises IndexError for a page that is not in the document
PageInDocument(i) == i < DocLen

\* lines 19-21: for page_num in my_range: page = doc[page_num];
\* text_dict = page.get_text("dict")
ForPage ==
  /\ program = "hello"
  /\ pc = "for_page"
  /\ IF it_page = Len(my_range)
       THEN /\ pc' = "close"
            /\ UNCHANGED <<it_page, page_num, text_dict, it_block, doc_log, exc>>
       ELSE /\ it_page' = it_page + 1
            /\ page_num' = my_range[it_page + 1]
            /\ doc_log' = Append(doc_log, <<"page", page_num'>>)
            /\ IF PageInDocument(page_num')
                 THEN /\ text_dict' = doc_content[page_num' + 1]
                      /\ it_block' = 0
                      /\ pc' = "for_block"
                      /\ exc' = exc
                 ELSE /\ Raise("IndexError")
                      /\ UNCHANGED <<text_dict, it_block>>
  /\ UNCHANGED <<doc_content, pages, opened, my_range, block, it_line, line,
                 it_span, stdout>>
  /\ UNCHANGED <<envVars, scriptVars, plainVars>>

\* lines 22-23: for block in text_dict["blocks"]: ... block["lines"]
ForBlock ==
  /\ program = "hello"
  /\ pc = "for_block"
  /\ IF it_block = Len(text_dict.blocks)
       THEN /\ pc' = "for_page"
            /\ UNCHANGED <<it_block, block, it_line, exc>>
       ELSE /\ it_block' = it_block + 1
            /\ block' = text_dict.blocks[it_block + 1]
            /\ IF "lines" \in DOMAIN block'
                 THEN /\ it_line' = 0
                      /\ pc' = "for_line"
                      /\ exc' = exc
                 ELSE /\ Raise("KeyError")
                      /\ UNCHANGED it_line
  /\ UNCHANGED <<doc_content, pages, opened, my_range, it_page, page_num,
                 text_dict, line, it_span, stdout, doc_log>>
  /\ UNCHANGED <<envVars, scriptVars, plainVars>>

\* lines 23-24: for line in block["lines"]: ... line["spans"]
ForLine ==
  /\ program = "hello"
  /\ pc = "for_line"
  /\ IF it_line = Len(block.lines)
       THEN /\ pc' = "for_block"
            /\ UNCHANGED <<it_line, line, it_span>>
       ELSE /\ it_line' = it_line + 1
            /\ line' = block.lines[it_line + 1]
            /\ it_span' = 0
            /\ pc' = "for_span"
  /\ UNCHANGED <<doc_content, pages, opened, my_range, it_page, page_num,
                 text_dict, it_block, block, stdout, doc_log, exc>>
  /\ UNCHANGED <<envVars, scriptVars, plainVars>>

\* lines 24-27: for span in line["spans"]: print(f"Text: ..., Bounding Box: ...")
ForSpan ==
  /\ program = "hello"
  /\ pc = "for_span"
  /\ IF it_span = Len(line.spans)
       THEN /\ pc' = "for_line"
            /\ UNCHANGED <<it_span, stdout>>
       ELSE /\ it_span' = it_span + 1
            /\ stdout' = Append(stdout, SpanLine(line.spans[it_span + 1]))
            /\ pc' = "for_span"
  /\ UNCHANGED <<doc_content, pages, opened, my_range, it_page, page_num,
                 text_dict, it_block, block, it_line, line, doc_log, exc>>
  /\ UNCHANGED <<envVars, scriptVars, plainVars>>

\* line 28: doc.close(); the function falls off its end and returns None
Close ==
  /\ program = "hello"
  /\ pc = "close"
  /\ opened' = FALSE
  /\ doc_log' = Append(doc_log, <<"close">>)
  /\ pc' = "print_ret"
  /\ UNCHANGED <<doc_content, pages, my_range, it_page, page_num, text_dict,
                 it_block, block, it_line, line, it_span, stdout, exc>>
  /\ UNCHANGED <<envVars, scriptVars, plainVars>>

\* line 31: print(extract_text_with_bounding_boxes(...)) writes the value
\* the call returned
ModuleWrite ==
  /\ program = "hello"
  /\ pc = "print_ret"
  /\ stdout' = Append(stdout, NoneLine)
  /\ pc' = "exit"
  /\ UNCHANGED <<doc_content, pages, opened, my_range, it_page, page_num,
                 text_dict, it_block, block, it_line, line, it_span, doc_log,
                 exc>>
  /\ UNCHANGED <<envVars, scriptVars, plainVars>>

\* ------------------------------------------------------------ basic.py
\* delver_pdf.process_pdf_file(path, template_path): a JSON string, or a
\* failure; it fails when one of the files does not exist
process_pdf_file(path, template_path) ==
  IF path \in files /\ template_path \in files THEN lib_out ELSE LibFailure

NoValue == "<no value>"
NewFrame == [calls |-> <<>>, result |-> NoValue, out |-> <<>>, ret |-> NoValue]

\* line 11: the call main() makes
MainArgs == <<PdfPath, TmplPath>>

\* line 11, when the call returns: result = delver_pdf.process_pdf_file(...)
MainCall(m) ==
  [m EXCEPT !.calls = Append(@, MainArgs),
            !.result = process_pdf_file(MainArgs[1], MainArgs[2]).val]

\* line 11, when the call raises: the frame is left without a result
MainCallRaises(m) == [m EXCEPT !.calls = Append(@, MainArgs)]

\* MainWrite, were the result written twice
MainWriteTwice(m) == [m EXCEPT !.out = @ \o <<m.result, m.result>>]

\* line 12: print(result)
MainWrite(m) == [m EXCEPT !.out = Append(@, m.result)]

\* line 13: return result
MainReturn(m) == [m EXCEPT !.ret = m.result]

\* the line main() wrote last
LastWritten(m) == m.out[Len(m.out)]

InitBasic ==
  /\ program = "basic"
  /\ files \in SUBSET Paths
  /\ lib_out \in {LibFailure} \cup {[ok |-> TRUE, val |-> r] : r \in Results}
  /\ s_pc = "create"
  /\ s_profiler = "none"
  /\ s_main = NewFrame
  /\ s_stream = <<>>
  /\ s_stats = "none"
  /\ s_stdout = <<>>
  /\ s_disk = {}
  /\ s_log = <<>>
  /\ p_pc = "call"
  /\ p_main = NewFrame
  /\ p_stdout = <<>>

\* the variables of the script that does not run
HelloIdle ==
  /\ doc_content = <<>>
  /\ pages = NoPages
  /\ pc = "idle"
  /\ opened = FALSE
  /\ my_range = <<>>
  /\ it_page = 0
  /\ page_num = 0
  /\ text_dict = NoLocal
  /\ it_block = 0
  /\ block = NoLocal
  /\ it_line = 0
  /\ line = NoLocal
  /\ it_span = 0
  /\ stdout = <<>>
  /\ doc_log = <<>>
  /\ exc = None

BasicIdle ==
  /\ s_pc = "idle"
  /\ s_profiler = "none"
  /\ s_main = NewFrame
  /\ s_stream = <<>>
  /\ s_stats = "none"
  /\ s_stdout = <<>>
  /\ s_disk = {}
  /\ s_log = <<>>
  /\ p_pc = "idle"
  /\ p_main = NewFrame
  /\ p_stdout = <<>>

Step(name) == [step |-> name, profiler |-> s_profiler]

\* line 18: profiler = cProfile.Profile()
CreateProfiler ==
  /\ program = "basic"
  /\ s_pc = "create"
  /\ s_profiler' = "created"
  /\ s_pc' = "enable"
  /\ UNCHANGED <<s_main, s_stream, s_stats, s_stdout, s_disk, s_log>>
  /\ UNCHANGED <<envVars, helloVars, plainVars>>

\* line 21: profiler.enable()
Enable ==
  /\ program = "basic"
  /\ s_pc = "enable"
  /\ s_profiler' = "enabled"
  /\ s_log' = Append(s_log, Step("enable"))
  /\ s_pc' = "main_call"
  /\ UNCHANGED <<s_main, s_stream, s_stats, s_stdout, s_disk>>
  /\ UNCHANGED <<envVars, helloVars, plainVars>>

\* ScriptMainCall, were the failure caught around main()
ScriptMainCallCaught ==
  /\ program = "basic"
  /\ s_pc = "main_call"
  /\ s_log' = Append(s_log, Step("process_pdf_file"))
  /\ IF process_pdf_file(MainArgs[1], MainArgs[2]).ok
       THEN /\ s_main' = MainCall(s_main)
            /\ s_pc' = "main_print"
       ELSE /\ s_main' = MainCallRaises(s_main)
            /\ s_pc' = "disable"
  /\ UNCHANGED <<s_profiler, s_stream, s_stats, s_stdout, s_disk>>
  /\ UNCHANGED <<envVars, helloVars, plainVars>>

\* lines 22 and 11: main() is entered and calls process_pdf_file; a failure
\* is caught neither in main() nor in the __main__ block
ScriptMainCall ==
  /\ program = "basic"
  /\ s_pc = "main_call"
  /\ s_log' = Append(s_log, Step("process_pdf_file"))
  /\ IF process_pdf_file(MainArgs[1], MainArgs[2]).ok
       THEN /\ s_main' = MainCall(s_main)
            /\ s_pc' = "main_print"
       ELSE /\ s_main' = MainCallRaises(s_main)
            /\ s_pc' = "raised"
  /\ UNCHANGED <<s_profiler, s_stream, s_stats, s_stdout, s_disk>>
  /\ UNCHANGED <<envVars, helloVars, plainVars>>

\* ScriptMainWrite, were the output of main() lost while the profiler runs
ScriptMainWriteLost ==
  /\ program = "basic"
  /\ s_pc = "main_print"
  /\ s_main' = IF s_profiler = "enabled" THEN s_main ELSE MainWrite(s_main)
  /\ s_stdout' = IF s_profiler = "enabled" THEN s_stdout
                 ELSE Append(s_stdout, LastWritten(s_main'))
  /\ s_pc' = "main_return"
  /\ UNCHANGED <<s_profiler, s_stream, s_stats, s_disk, s_log>>
  /\ UNCHANGED <<envVars, helloVars, plainVars>>

\* line 12
ScriptMainWrite ==
  /\ program = "basic"
  /\ s_pc = "main_print"
  /\ s_main' = MainWrite(s_main)
  /\ s_stdout' = Append(s_stdout, LastWritten(s_main'))
  /\ s_pc' = "main_return"
  /\ UNCHANGED <<s_profiler, s_stream, s_stats, s_disk, s_log>>
  /\ UNCHANGED <<envVars, helloVars, plainVars>>

\* line 13; the __main__ block drops the value main() returns
ScriptMainReturn ==
  /\ program = "basic"
  /\ s_pc = "main_return"
  /\ s_main' = MainReturn(s_main)
  /\ s_log' = Append(s_log, Step("main_returned"))
  /\ s_pc' = "disable"
  /\ UNCHANGED <<s_profiler, s_stream, s_stats, s_stdout, s_disk>>
  /\ UNCHANGED <<envVars, helloVars, plainVars>>

\* Disable, were the profiler left running
DisableOmitted ==
  /\ program = "basic"
  /\ s_pc = "disable"
  /\ s_log' = Append(s_log, Step("disable"))
  /\ s_pc' = "stats"
  /\ UNCHANGED <<s_profiler, s_main, s_stream, s_stats, s_stdout, s_disk>>
  /\ UNCHANGED <<envVars, helloVars, plainVars>>

\* line 23: profiler.disable()
Disable ==
  /\ program = "basic"
  /\ s_pc = "disable"
  /\ s_profiler' = "disabled"
  /\ s_log' = Append(s_log, Step("disable"))
  /\ s_pc' = "stats"
  /\ UNCHANGED <<s_main, s_stream, s_stats, s_stdout, s_disk>>
  /\ UNCHANGED <<envVars, helloVars, plainVars>>

\* lines 26-27: s = io.StringIO(); ps = pstats.Stats(profiler, stream=s)
CreateStats ==
  /\ program = "basic"
  /\ s_pc = "stats"
  /\ s_stream' = <<>>
  /\ s_stats' = "unsorted"
  /\ s_pc' = "sort"
  /\ UNCHANGED <<s_profiler, s_main, s_stdout, s_disk, s_log>>
  /\ UNCHANGED <<envVars, helloVars, plainVars>>

\* line 30: ps.sort_stats("cumulative")
SortStats ==
  /\ program = "basic"
  /\ s_pc = "sort"
  /\ s_stats' = "cumulative"
  /\ s_log' = Append(s_log, Step("sort_stats"))
  /\ s_pc' = "print_stats"
  /\ UNCHANGED <<s_profiler, s_main, s_stream, s_stdout, s_disk>>
  /\ UNCHANGED <<envVars, helloVars, plainVars>>

\* the report print_stats(n) writes for statistics in the given order
StatsReport(order, n) == <<"stats", order, n>>

TopFunctions == 20

\* line 31: ps.print_stats(20) writes the report to the stream s
WriteStats ==
  /\ program = "basic"
  /\ s_pc = "print_stats"
  /\ s_stream' = Append(s_stream, StatsReport(s_stats, TopFunctions))
  /\ s_pc' = "console"
  /\ UNCHANGED <<s_profiler, s_main, s_stats, s_stdout, s_disk, s_log>>
  /\ UNCHANGED <<envVars, helloVars, plainVars>>

Banner == <<"\n==================================================",
            "PROFILING RESULTS",
            "==================================================">>

\* lines 34-37: the banner, then print(s.getvalue())
WriteConsole ==
  /\ program = "basic"
  /\ s_pc = "console"
  /\ s_stdout' = s_stdout \o Banner \o <<s_stream>>
  /\ s_log' = Append(s_log, Step("console"))
  /\ s_pc' = "dump"
  /\ UNCHANGED <<s_profiler, s_main, s_stream, s_stats, s_disk>>
  /\ UNCHANGED <<envVars, helloVars, plainVars>>

ProfFile == "profile_results.prof"

Trailer == <<"\nDetailed profiling data saved to 'profile_results.prof'",
             "You can analyze it with: python -m pstats profile_results.prof">>

\* lines 40-42: ps.dump_stats("profile_results.prof") and the two closing
\* lines
DumpStats ==
  /\ program = "basic"
  /\ s_pc = "dump"
  /\ s_disk' = s_disk \cup {ProfFile}
  /\ s_log' = Append(s_log, Step("dump_stats"))
  /\ s_stdout' = s_stdout \o Trailer
  /\ s_pc' = "exit"
  /\ UNCHANGED <<s_profiler, s_main, s_stream, s_stats>>
  /\ UNCHANGED <<envVars, helloVars, plainVars>>

\* main() called without a profiler, lines 11-13
PlainMainCall ==
  /\ program = "basic"
  /\ p_pc = "call"
  /\ IF process_pdf_file(MainArgs[1], MainArgs[2]).ok
       THEN /\ p_main' = MainCall(p_main)
            /\ p_pc' = "print"
       ELSE /\ p_main' = MainCallRaises(p_main)
            /\ p_pc' = "raised"
  /\ UNCHANGED p_stdout
  /\ UNCHANGED <<envVars, helloVars, scriptVars>>

PlainMainWrite ==
  /\ program = "basic"
  /\ p_pc = "print"
  /\ p_main' = MainWrite(p_main)
  /\ p_stdout' = Append(p_stdout, LastWritten(p_main'))
  /\ p_pc' = "return"
  /\ UNCHANGED <<envVars, helloVars, scriptVars>>

PlainMainReturn ==
  /\ program = "basic"
  /\ p_pc = "return"
  /\ p_main' = MainReturn(p_main)
  /\ p_pc' = "returned"
  /\ UNCHANGED p_stdout
  /\ UNCHANGED <<envVars, helloVars, scriptVars>>

\* ------------------------------------------------------------ behaviours
Init ==
  \/ InitHello /\ BasicIdle
  \/ InitBasic /\ HelloIdle

Next ==
  \/ Open
  \/ ComputeRange
  \/ ForPage
  \/ ForBlock
  \/ ForLine
  \/ ForSpan
  \/ Close
  \/ ModuleWrite
  \/ CreateProfiler
  \/ Enable
  \/ ScriptMainCall
  \/ ScriptMainWrite
  \/ ScriptMainReturn
  \/ Disable
  \/ CreateStats
  \/ SortStats
  \/ WriteStats
  \/ WriteConsole
  \/ DumpStats
  \/ PlainMainCall
  \/ PlainMainWrite
  \/ PlainMainReturn

Spec == Init /\ [][Next]_vars

\* ------------------------------------------------------------ observations
RECURSIVE ConcatAll(_)
ConcatAll(seqs) ==
  IF Len(seqs) = 0 THEN <<>> ELSE Head(seqs) \o ConcatAll(Tail(seqs))

IsPrefix(a, b) == Len(a) <= Len(b) /\ \A i \in 1..Len(a) : a[i] = b[i]

\* the spans of a block, a page and a list of pages, in document order
SpansOfBlock(b) ==
  IF "lines" \in DOMAIN b
    THEN ConcatAll([l \in 1..Len(b.lines) |-> b.lines[l].spans])
    ELSE <<>>
SpansOfPage(td) ==
  ConcatAll([b \in 1..Len(td.blocks) |-> SpansOfBlock(td.blocks[b])])
SpansOfPages(nums) ==
  ConcatAll([i \in 1..Len(nums) |-> SpansOfPage(doc_content[nums[i] + 1])])

IsPageRead(e) == e[1] = "page"
\* the page indices asked of the document, in order, and those it has
PagesRequested ==
  LET reads == SelectSeq(doc_log, IsPageRead)
  IN  [i \in 1..Len(reads) |-> reads[i][2]]
PagesVisited == SelectSeq(PagesRequested, PageInDocument)

Count(log, e) == Cardinality({i \in 1..Len(log) : log[i] = e})

IsSpanLine(ln) ==
  Len(ln) = 4 /\ ln[1] = "Text: " /\ ln[3] = ", Bounding Box: "

\* the call of extract_text_with_bounding_boxes has opened the document and
\* has ended, by returning or by raising
CallEnded == pc \in {"print_ret", "exit", "raised"} /\ Count(doc_log, <<"open">>) > 0

\* the lines the function itself wrote: all but the module's closing line
FunctionLines == IF pc = "exit" THEN SubSeq(stdout, 1, Len(stdout) - 1) ELSE stdout

MainDone(p) == p \notin {"create", "enable", "main_call", "main_print",
                         "main_return", "call", "print", "return", "idle"}
MainRaised(p) == p = "raised"
Succeeds == process_pdf_file(PdfPath, TmplPath).ok

StepsOf(log) == [i \in 1..Len(log) |-> log[i].step]
HarnessOrder == <<"enable", "process_pdf_file", "main_returned", "disable",
                  "sort_stats", "console", "dump_stats">>

\* ------------------------------------------------------------ claims

\* C1: with a valid PDF path extract_text_with_bounding_boxes never raises,
\* whatever the document holds and whatever the pages argument is.
C1_TerminatesNormally ==
  (program = "hello" /\ PdfPath \in files) => pc # "raised"

\* C2: once the call has opened the document, the handle is closed exactly
\* once by the time the call ends, by return or by exception, and the close
\* is the last use of the document.
C2_ClosedOnEveryExit ==
  CallEnded =>
    /\ Count(doc_log, <<"close">>) = 1
    /\ doc_log[Len(doc_log)] = <<"close">>
    /\ ~opened

\* C3: with a nonexistent PDF path both scripts fail: hello.py raises at the
\* open, before any line is written and before any use of the document, and
\* main() raises from process_pdf_file before anything is written; neither
\* returns a value.
C3_MissingPdfFails ==
  PdfPath \notin files =>
    /\ program = "hello" =>
         /\ pc \in {"open", "raised"}
         /\ pc = "raised" => exc = "FileNotFoundError"
         /\ stdout = <<>>
         /\ doc_log = <<>>
         /\ ~opened
    /\ program = "basic" =>
         /\ s_pc \in {"create", "enable", "main_call", "raised"}
         /\ p_pc \in {"call", "raised"}
         /\ s_stdout = <<>> /\ p_stdout = <<>>
         /\ s_main.out = <<>> /\ p_main.out = <<>>
         /\ s_main.ret = NoValue /\ p_main.ret = NoValue

C3_Witness ==
  /\ PdfPath \notin files
  /\ \/ program = "hello" /\ pc = "raised" /\ exc = "FileNotFoundError"
     \/ program = "basic" /\ s_pc = "raised" /\ p_pc = "raised"

\* C4: when process_pdf_file fails under the harness the failure ends the
\* script: one call and no retry, nothing written to standard output, no
\* statistics report, no profile_results.prof.
C4_FailurePropagates ==
  (program = "basic" /\ ~Succeeds) =>
    /\ s_pc \in {"create", "enable", "main_call", "raised"}
    /\ Len(s_main.calls) <= 1
    /\ s_pc = "raised" => Len(s_main.calls) = 1
    /\ s_main.ret = NoValue
    /\ s_stdout = <<>>
    /\ s_stream = <<>>
    /\ s_stats = "none"
    /\ s_disk = {}

C4_Witness ==
  /\ program = "basic"
  /\ ~Succeeds
  /\ s_pc = "raised"
  /\ Len(s_main.calls) = 1

\* C5: the harness takes its steps once each and in the order enable, call
\* of process_pdf_file, return of main(), disable, sort by cumulative time,
\* report to the console, dump to profile_results.prof; process_pdf_file
\* runs with the profiler enabled, the file is written with it disabled.
C5_HarnessOrder ==
  program = "basic" =>
    /\ IsPrefix(StepsOf(s_log), HarnessOrder)
    /\ \A i \in 1..Len(s_log) :
         /\ s_log[i].step \in {"process_pdf_file", "main_returned"}
              => s_log[i].profiler = "enabled"
         /\ s_log[i].step \in {"sort_stats", "console", "dump_stats"}
              => s_log[i].profiler = "disabled"
    /\ Len(s_main.calls) > 0 => s_profiler = "enabled" \/ MainDone(s_pc)
    /\ s_disk # {} => s_pc = "exit"
    /\ s_pc = "exit" =>
         /\ StepsOf(s_log) = HarnessOrder
         /\ s_disk = {ProfFile}
         /\ s_stdout = <<s_main.ret>> \o Banner
                         \o <<<<StatsReport("cumulative", TopFunctions)>>>>
                         \o Trailer

C5_Witness ==
  /\ program = "basic"
  /\ s_pc = "exit"
  /\ ProfFile \in s_disk

\* C6: what the function writes is the flattening, in document order, of
\* the pages it visited: every span of a visited page once, none dropped,
\* repeated or out of order.
C6_WrittenIsFlattening ==
  CallEnded =>
    FunctionLines =
      [i \in 1..Len(SpansOfPages(PagesVisited)) |->
         SpanLine(SpansOfPages(PagesVisited)[i])]

\* C7: every line hello.py writes to standard output is a per-span
\* "Text: ..., Bounding Box: ..." line.
C7_OnlySpanLines ==
  program = "hello" => \A i \in 1..Len(stdout) : IsSpanLine(stdout[i])

C9_MainCallsWritesReturns ==
  program = "basic" =>
    /\ \A m \in {s_main, p_main} :
         /\ Len(m.calls) <= 1
         /\ \A i \in 1..Len(m.calls) :
              m.calls[i] = <<"./tests/3M_2015_10K.pdf", "./tests/10k.tmpl">>
         /\ Len(m.out) <= 1
         /\ m.ret # NoValue =>
              /\ Len(m.calls) = 1
              /\ lib_out.ok
              /\ m.out = <<lib_out.val>>
              /\ m.ret = lib_out.val
    /\ (MainDone(s_pc) /\ ~MainRaised(s_pc)) => s_main.ret # NoValue
    /\ p_pc = "returned" => p_main.ret # NoValue /\ p_stdout = <<lib_out.val>>

C9_Witness ==
  /\ program = "basic"
  /\ p_pc = "returned"
  /\ s_pc = "disable"
  /\ p_main.ret = lib_out.val
  /\ s_main.ret = lib_out.val

\* C10: the pages visited are exactly the indices 0 .. len(doc)-1 when
\* pages is None and exactly 0 .. n-1 when pages is n, in ascending order,
\* whatever the page count of the document.
C10_PagesVisited ==
  CallEnded =>
    PagesRequested = (IF pages = NoPages THEN Range(DocLen) ELSE Range(pages))

====
